---------------------------- MODULE Spec2Model ----------------------------
(***************************************************************************)
(* Comp.lex: an interactive command-line chat client (src/main.py).        *)
(*                                                                         *)
(* The model follows main(): load_config, get_api_key, ComplexChat's       *)
(* constructor, the interactive loop of start_chat_loop with the command   *)
(* interpreter process_command, and the final save_config.                 *)
(*                                                                         *)
(* Strings are sequences of one-character strings, so that strip, split,   *)
(* lower, startswith and float parsing are computed as Python computes     *)
(* them.  A dict is a function whose domain is its set of keys.  A float   *)
(* written in decimal is the pair (m, e) standing for m / 10^e.            *)
(***************************************************************************)
EXTENDS Integers, Sequences, FiniteSets, TLC

\* ------------------------------------------------------------------ bounds
\* lines read at the interactive prompt in one run
MaxPrompts == 2

\* ------------------------------------------------------- Python strings
Upper == <<"A","B","C","D","E","F","G","H","I","J","K","L","M",
           "N","O","P","Q","R","<<",">>T","U","V","W","X","Y","Z">>
Lower == <<"a","b","c","d","e","f","g","h","i","j","k","l","m",
           "n","o","p","q","r","s","t","u","v","w","x","y","z">>
Digits == <<"0","1","2","3","4","5","6","7","8","9">>
Whitespace == {" ", "\t"}

Range(f) == {f[i] : i \in DOMAIN f}
SetMin(S) == CHOOSE x \in S : \A y \in S : x <= y
SetMax(S) == CHOOSE x \in S : \A y \in S : x >= y

LowerChar(c) ==
    IF c \in Range(Upper)
      THEN Lower[CHOOSE i \in DOMAIN Upper : Upper[i] = c]
      ELSE c

\* str.lower()
lower(s) == [i \in 1..Len(s) |-> LowerChar(s[i])]

\* str.startswith(prefix)
startswith(s, prefix) ==
    /\ Len(s) >= Len(prefix)
    /\ SubSeq(s, 1, Len(prefix)) = prefix

\* str.strip()
strip(s) ==
    LET keep == {i \in 1..Len(s) : s[i] \notin Whitespace}
    IN  IF keep = {} THEN <<>> ELSE SubSeq(s, SetMin(keep), SetMax(keep))

\* str.split(maxsplit=1): leading whitespace is skipped, the first run of
\* whitespace separates the first word from the remainder, and the
\* remainder is kept as it is.
split(s) ==
    LET keep  == {i \in 1..Len(s) : s[i] \notin Whitespace}
        first == SetMin(keep)
        gaps  == {i \in first..Len(s) : s[i] \in Whitespace}
        gap   == SetMin(gaps)
        rest  == {i \in keep : i > gap}
    IN  IF keep = {} THEN <<>>
        ELSE IF gaps = {} THEN << SubSeq(s, first, Len(s)) >>
        ELSE IF rest = {} THEN << SubSeq(s, first, gap - 1) >>
        ELSE << SubSeq(s, first, gap - 1), SubSeq(s, SetMin(rest), Len(s)) >>

\* ------------------------------------------------------- Python floats
RECURSIVE Pow10(_)
Pow10(e) == IF e = 0 THEN 1 ELSE 10 * Pow10(e - 1)

DigitValue(c) == (CHOOSE i \in DOMAIN Digits : Digits[i] = c) - 1

RECURSIVE DigitsValue(_)
DigitsValue(s) ==
    IF s = <<>> THEN 0
    ELSE 10 * DigitsValue(SubSeq(s, 1, Len(s) - 1)) + DigitValue(s[Len(s)])

RECURSIVE Decimal(_, _)
Decimal(m, e) ==
    IF e > 0 /\ m % 10 = 0 THEN Decimal(m \div 10, e - 1)
    ELSE [k |-> "num", m |-> m, e |-> e]

ValueError == [k |-> "ValueError", m |-> 0, e |-> 0]
NaN        == [k |-> "nan", m |-> 0, e |-> 0]
Infinity(sign) == [k |-> "inf", m |-> sign, e |-> 0]

\* float(arg) on the decimal grammar: surrounding whitespace, an optional
\* sign, then nan, inf, infinity (in any case) or digits with an optional
\* point.  Exponents and digit-group underscores are outside the inputs
\* of the model.
float(arg) ==
    LET s    == strip(arg)
        neg  == s # <<>> /\ s[1] = "-"
        body == IF s # <<>> /\ s[1] \in {"+", "-"} THEN Tail(s) ELSE s
        sign == IF neg THEN 0 - 1 ELSE 1
        dots == {i \in 1..Len(body) : body[i] = "."}
        dot  == SetMin(dots)
        ip   == IF dots = {} THEN body ELSE SubSeq(body, 1, dot - 1)
        fp   == IF dots = {} THEN <<>> ELSE SubSeq(body, dot + 1, Len(body))
    IN  IF lower(body) = <<"n", "a", "n">> THEN NaN
        ELSE IF lower(body) \in {<<"i", "n", "f">>, <<"i", "n", "f", "i", "n", "i", "t", "y">>} THEN Infinity(sign)
        ELSE IF /\ Cardinality(dots) <= 1
                /\ Range(ip) \subseteq Range(Digits)
                /\ Range(fp) \subseteq Range(Digits)
                /\ Len(ip) + Len(fp) > 0
          THEN Decimal(sign * DigitsValue(ip \o fp), Len(fp))
        ELSE ValueError

\* a variant of InUnitRange that excludes the upper end, 0.0 <= temp < 1.0
InHalfOpenRange(temp) ==
    /\ temp.k = "num"
    /\ 0 <= temp.m
    /\ temp.m < Pow10(temp.e)

\* 0.0 <= temp <= 1.0
InUnitRange(temp) ==
    /\ temp.k = "num"
    /\ 0 <= temp.m
    /\ temp.m <= Pow10(temp.e)

\* --------------------------------------------------------- Python dicts
EmptyDict == [key \in {} |-> 0]

\* config.get(key, default)
Get(d, key, default) == IF key \in DOMAIN d THEN d[key] ELSE default

\* config[key] = value
Put(d, key, value) ==
    [j \in DOMAIN d \cup {key} |-> IF j = key THEN value ELSE d[j]]

\* ------------------------------------------------------------ constants
DEFAULT_MODEL == <<"g", "e", "m", "i", "n", "i", "-", "2", ".", "5", "-", "f", "l", "a", "s", "h">>
LITE_MODEL    == <<"g", "e", "m", "i", "n", "i", "-", "2", ".", "5", "-", "f", "l", "a", "s", "h", "-", "l", "i", "t", "e">>
PRO_MODEL     == <<"g", "e", "m", "i", "n", "i", "-", "2", ".", "5", "-", "p", "r", "o">>
DEFAULT_TEMPERATURE == [m |-> 7, e |-> 1]
\* the default system instruction, abbreviated
DEFAULT_PERSONA == <<"C", "o", "m", "p", ".", "l", "e", "x">>
AIza == <<"A", "I", "z", "a">>
GEMINI == <<"g", "e", "m", "i", "n", "i">>

\* the values of the api_key field: a string, a number, or None
Str(s)  == [t |-> "str", s |-> s]
Num     == [t |-> "num", s |-> <<>>]
None    == [t |-> "none", s |-> <<>>]
\* `not api_key`
Falsy(v) == v.t = "none" \/ (v.t = "str" /\ v.s = <<>>)

UserTurn(text)  == [role |-> "user", text |-> text]
ModelTurn(text) == [role |-> "model", text |-> text]

\* ------------------------------------------------------- bounded inputs
\* documents a configuration file may hold when the program starts
DocFull ==
    [api_key |-> Str(<<"A", "I", "z", "a", "K">>), model |-> PRO_MODEL,
     temperature |-> [m |-> 5, e |-> 1], system_instruction |-> <<"x">>,
     search_grounding |-> TRUE,
     history |-> << UserTurn(<<"h", "i">>), ModelTurn(<<"o", "k">>) >>]
DocBadKey ==
    [api_key |-> Str(<<"a", "b", "c", "1", "2", "3">>), temperature |-> [m |-> 5, e |-> 0]]
DocNumberKey == [api_key |-> Num]
Docs == {DocFull, DocBadKey, DocNumberKey}

Absent    == [kind |-> "absent", doc |-> EmptyDict]
Malformed == [kind |-> "malformed", doc |-> EmptyDict]
\* bytes that are not text in the encoding open(CONFIG_PATH, 'r') decodes
\* with, such as 0xFF 0xFE under UTF-8
Undecodable == [kind |-> "undecodable", doc |-> EmptyDict]
JsonFile(doc) == [kind |-> "json", doc |-> doc]
Files == {Absent, Malformed, Undecodable} \cup {JsonFile(d) : d \in Docs}

\* lines typed at the onboarding prompt
KeyEntries ==
    {<<>>, <<"a", "b", "c", "1", "2", "3">>, <<"A", "I", "z", "a", "T", "E", "S", "T", "K", "E", "Y">>, <<" ", "A", "I", "z", "a", "T", "E", "S", "T", "K", "E", "Y">>, <<"A", "I", "z", "a", "T", "E", "S", "T", "K", "E", "Y", " ">>}

\* lines typed at the interactive prompt
InputLines ==
    {<<>>, <<" ", " ">>, <<"h", "i">>,
     <<"/", "e", "x", "i", "t">>, <<"/", "Q", "U", "I", "T">>, <<"/", "h", "e", "l", "p">>, <<"/", "s", "e", "t", "t", "i", "n", "g", "s">>,
     <<"/", "m", "o", "d", "e", "l">>, <<"/", "m", "o", "d", "e", "l", " ", "f", "l", "a", "s", "h">>, <<"/", "m", "o", "d", "e", "l", " ", "P", "R", "O">>, <<"/", "m", "o", "d", "e", "l", " ", "l", "i", "t", "e">>,
     <<"/", "m", "o", "d", "e", "l", " ", "g", "e", "m", "i", "n", "i", "-", "x">>, <<"/", "m", "o", "d", "e", "l", " ", "c", "u", "s", "t", "o", "m", "-", "g", "e", "m", "i", "n", "i", "-", "x">>, <<"/", "m", "o", "d", "e", "l", " ", "b", "a", "n", "a", "n", "a">>,
     <<"/", "t", "e", "m", "p">>, <<"/", "t", "e", "m", "p", " ", "0", ".", "0">>, <<"/", "t", "e", "m", "p", " ", "1", ".", "0">>, <<"/", "t", "e", "m", "p", " ", "1", ".", "1">>, <<"/", "t", "e", "m", "p", " ", "-", "0", ".", "1">>,
     <<"/", "t", "e", "m", "p", " ", "a", "b", "c">>, <<"/", "t", "e", "m", "p", " ", "n", "a", "n">>,
     <<"/", "p", "e", "r", "s", "o", "n", "a">>, <<"/", "p", "e", "r", "s", "o", "n", "a", " ", "x">>,
     <<"/", "s", "e", "a", "r", "c", "h", " ", "o", "n">>, <<"/", "s", "e", "a", "r", "c", "h", " ", "O", "F", "F">>, <<"/", "s", "e", "a", "r", "c", "h", " ", "m", "a", "y", "b", "e">>,
     <<"/", "h", "i", "s", "t", "o", "r", "y">>, <<"/", "h", "i", "s", "t", "o", "r", "y", " ", "c", "l", "e", "a", "r">>, <<"/", "h", "i", "s", "t", "o", "r", "y", " ", "C", "L", "E", "A", "R">>,
     <<"/">>, <<"/", "f", "o", "o">>, <<"/", "m", "o", "d", "e", "l", "s", " ", "p", "r", "o">>, <<"/", "e", "x", "i", "t", "2">>}

\* text fragments a response stream may yield (an empty one carries no
\* text), and the full responses the streams of the model add up to
Fragments == {<<>>, <<"o">>, <<"k">>}
Responses == {<<"o", "k">>, <<"k", "o">>}
Prefixes(S) == UNION {{SubSeq(s, 1, n) : n \in 0..Len(s)} : s \in S}

\* ---------------------------------------------------------------- state
VARIABLES
    pc,                \* where main() is
    disk,              \* the file at CONFIG_PATH
    io,                \* "ok", or "fail" while writing the file raises IOError
    config,            \* the dict main() loads, which is also self.config
    api_key,           \* self.api_key
    client,            \* self.client
    model_name,        \* self.model_name
    temperature,       \* self.temperature
    system_instruction,\* self.system_instruction
    search_grounding,  \* self.search_grounding
    history,           \* self.history
    shared,            \* self.history and config["history"] are one list
    chat_session,      \* self.chat_session
    request,           \* the streaming request in flight
    full_response,     \* the text received from the stream so far
    console,           \* the last message printed
    prompts            \* the lines read at the interactive prompt so far

session == << api_key, client, model_name, temperature, system_instruction,
              search_grounding, history, shared, chat_session >>
vars == << pc, disk, io, config, session, request, full_response, console,
           prompts >>

NoClient  == [open |-> FALSE, api_key |-> None]
Client(key) == [open |-> TRUE, api_key |-> key]

NoChat ==
    [id |-> 0, model |-> <<>>, system_instruction |-> <<>>,
     temperature |-> [m |-> 0, e |-> 0], tools |-> {}, history |-> <<>>]
NoRequest ==
    [sent |-> FALSE, model |-> <<>>, contents |-> <<>>,
     system_instruction |-> <<>>, temperature |-> [m |-> 0, e |-> 0],
     tools |-> {}]

Init ==
    /\ pc = "load"
    /\ disk \in Files
    /\ io = "ok"
    /\ config = EmptyDict
    /\ api_key = None
    /\ client = NoClient
    /\ model_name = <<>>
    /\ temperature = [m |-> 0, e |-> 0]
    /\ system_instruction = <<>>
    /\ search_grounding = FALSE
    /\ history = <<>>
    /\ shared = FALSE
    /\ chat_session = NoChat
    /\ request = NoRequest
    /\ full_response = <<>>
    /\ console = "Initializing"
    /\ prompts = 0

\* ---------------------------------------------------- Configuration Store
\* load_config(): the document returned, whether the warning was printed,
\* and whether an exception leaves the function.  json.load reads the text
\* of the file and parses it: text that is not JSON raises JSONDecodeError,
\* which line 35 catches; bytes that do not decode raise
\* UnicodeDecodeError, which is a ValueError but not a JSONDecodeError, and
\* no clause catches it.
load_config ==
    IF disk.kind = "json"
      THEN [doc |-> disk.doc, warning |-> FALSE, raises |-> FALSE]
    ELSE IF disk.kind = "malformed"
      THEN [doc |-> EmptyDict, warning |-> TRUE, raises |-> FALSE]
    ELSE IF disk.kind = "undecodable"
      THEN [doc |-> EmptyDict, warning |-> FALSE, raises |-> TRUE]
    ELSE [doc |-> EmptyDict, warning |-> FALSE, raises |-> FALSE]

\* save_config(config): the files the call can leave behind.  json.dump
\* writes the value of the document; when opening or writing raises IOError
\* the file is left as it was or left cut short.
save_config(cfg) ==
    IF io = "ok" THEN {JsonFile(cfg)} ELSE {disk, Malformed}

\* line 309: main() calls load_config() outside its try block, so an
\* exception that leaves load_config ends the process with a traceback
LoadConfig ==
    /\ pc = "load"
    /\ IF load_config.raises
         THEN /\ pc' = "killed"
              /\ console' = "Traceback"
              /\ UNCHANGED config
         ELSE /\ pc' = "get_api_key"
              /\ config' = load_config.doc
              /\ console' = IF load_config.warning THEN "Warning: corrupted"
                            ELSE console
    /\ UNCHANGED << disk, io, session, request, full_response, prompts >>

\* ------------------------------------------------------------ Onboarding
\* a variant of GetApiKey that takes any stored string for a key,
\* `if not api_key:` without the test of the prefix
GetApiKeyNoPrefixTest ==
    /\ pc = "get_api_key"
    /\ LET stored == Get(config, "api_key", None)
       IN  IF Falsy(stored) THEN pc' = "ask_key" /\ console' = "Welcome"
           ELSE pc' = "construct" /\ console' = console
    /\ UNCHANGED << disk, io, config, session, request, full_response, prompts >>

\* get_api_key, lines 50-61: the stored key is inspected.  A stored value
\* that is a number has no startswith: the AttributeError is the fatal
\* error of main(), which exits with status 1.
GetApiKey ==
    /\ pc = "get_api_key"
    /\ LET stored == Get(config, "api_key", None)
       IN  IF Falsy(stored) THEN pc' = "ask_key" /\ console' = "Welcome"
           ELSE IF stored.t # "str" THEN pc' = "exit(1)" /\ console' = "Fatal Error"
           ELSE IF ~startswith(stored.s, AIza)
             THEN pc' = "ask_key" /\ console' = "Welcome"
           ELSE pc' = "construct" /\ console' = console
    /\ UNCHANGED << disk, io, config, session, request, full_response, prompts >>

\* a variant of AskKey that tests and stores the entry as typed, without
\* .strip()
AskKeyUntrimmed(entered) ==
    /\ pc = "ask_key"
    /\ IF startswith(entered, AIza)
         THEN /\ config' = Put(config, "api_key", Str(entered))
              /\ disk' \in save_config(config')
              /\ console' = "API Key accepted and saved."
              /\ pc' = "construct"
         ELSE /\ console' = "Invalid Key Format."
              /\ UNCHANGED << config, disk, pc >>
    /\ UNCHANGED << io, session, request, full_response, prompts >>

\* get_api_key, lines 64-72: one pass of the prompt loop
AskKey(entered) ==
    /\ pc = "ask_key"
    /\ LET key == strip(entered)
       IN  IF startswith(key, AIza)
             THEN /\ config' = Put(config, "api_key", Str(key))
                  /\ disk' \in save_config(config')
                  /\ console' = "API Key accepted and saved."
                  /\ pc' = "construct"
             ELSE /\ console' = "Invalid Key Format."
                  /\ UNCHANGED << config, disk, pc >>
    /\ UNCHANGED << io, session, request, full_response, prompts >>

\* the prompt raises: end of input is the fatal error of main(), and a
\* manual interrupt is not caught at all
AskKeyFails ==
    /\ pc = "ask_key"
    /\ \/ pc' = "exit(1)" /\ console' = "Fatal Error"
       \/ pc' = "killed" /\ console' = "Traceback"
    /\ UNCHANGED << disk, io, config, session, request, full_response, prompts >>

\* -------------------------------------------------- Chat Session Controller
\* the model a request is sent to
model_to_use(grounding, name) == IF grounding THEN LITE_MODEL ELSE name

\* the tools of a request
tools(grounding) == IF grounding THEN {"google_search"} ELSE {}

\* a variant of _create_new_chat that patches the context it has instead
\* of creating one: the object stays the same
_patch_chat(cl, hist, grounding, name, persona, temp, old) ==
    IF ~cl.open THEN NoChat
    ELSE [id |-> IF old.id = 0 THEN 1 ELSE old.id,
          model |-> model_to_use(grounding, name),
          system_instruction |-> persona,
          temperature |-> temp,
          tools |-> tools(grounding),
          history |-> hist]

\* _create_new_chat(): a new context object, or None without a client
_create_new_chat(cl, hist, grounding, name, persona, temp, old) ==
    IF ~cl.open THEN NoChat
    ELSE [id |-> IF old.id = 1 THEN 2 ELSE 1,
          model |-> model_to_use(grounding, name),
          system_instruction |-> persona,
          temperature |-> temp,
          tools |-> tools(grounding),
          history |-> hist]

\* ComplexChat(config), and main()'s test of chat_app.client
Construct ==
    /\ pc = "construct"
    /\ api_key' = Get(config, "api_key", None)
    /\ model_name' = Get(config, "model", DEFAULT_MODEL)
    /\ temperature' = Get(config, "temperature", DEFAULT_TEMPERATURE)
    /\ system_instruction' = Get(config, "system_instruction", DEFAULT_PERSONA)
    /\ search_grounding' = Get(config, "search_grounding", FALSE)
    /\ history' = Get(config, "history", <<>>)
    /\ shared' = ("history" \in DOMAIN config)
    /\ client' = IF Falsy(api_key') THEN NoClient ELSE Client(api_key')
    /\ chat_session' = _create_new_chat(client', history', search_grounding',
                          model_name', system_instruction', temperature',
                          chat_session)
    /\ IF client'.open
         THEN pc' = "prompt" /\ console' = "Current Settings"
         ELSE pc' = "final_save" /\ console' = console
    /\ UNCHANGED << disk, io, config, request, full_response, prompts >>

\* a variant of generate_content_stream that sends the configured model
\* whatever the grounding flag is
StreamWithConfiguredModel(user_input) ==
    [sent |-> TRUE,
     model |-> model_name,
     contents |-> << UserTurn(user_input) >>,
     system_instruction |-> system_instruction,
     temperature |-> temperature,
     tools |-> tools(search_grounding)]

\* the streaming request of one user turn (lines 258-274)
generate_content_stream(user_input) ==
    [sent |-> TRUE,
     model |-> model_to_use(search_grounding, model_name),
     contents |-> << UserTurn(user_input) >>,
     system_instruction |-> system_instruction,
     temperature |-> temperature,
     tools |-> tools(search_grounding)]

\* self.chat_session = self._create_new_chat(), after the fields changed
Rebuild ==
    chat_session' = _create_new_chat(client, history', search_grounding',
                        model_name', system_instruction', temperature',
                        chat_session)

\* ------------------------------------------------------ process_command
\* a variant of new_model that looks the argument up as typed,
\* model_map.get(arg, arg)
new_model_as_typed(a) ==
    IF a = <<"f", "l", "a", "s", "h">> THEN <<"g", "e", "m", "i", "n", "i", "-", "2", ".", "5", "-", "f", "l", "a", "s", "h">>
    ELSE IF a = <<"p", "r", "o">> THEN <<"g", "e", "m", "i", "n", "i", "-", "2", ".", "5", "-", "p", "r", "o">>
    ELSE IF a = <<"l", "i", "t", "e">> THEN <<"g", "e", "m", "i", "n", "i", "-", "2", ".", "5", "-", "f", "l", "a", "s", "h", "-", "l", "i", "t", "e">>
    ELSE a

\* model_map.get(arg.lower(), arg)
new_model(a) ==
    IF lower(a) = <<"f", "l", "a", "s", "h">> THEN <<"g", "e", "m", "i", "n", "i", "-", "2", ".", "5", "-", "f", "l", "a", "s", "h">>
    ELSE IF lower(a) = <<"p", "r", "o">> THEN <<"g", "e", "m", "i", "n", "i", "-", "2", ".", "5", "-", "p", "r", "o">>
    ELSE IF lower(a) = <<"l", "i", "t", "e">> THEN <<"g", "e", "m", "i", "n", "i", "-", "2", ".", "5", "-", "f", "l", "a", "s", "h", "-", "l", "i", "t", "e">>
    ELSE a

\* the commands the if-chain of process_command tests for
Handled ==
    {<<"/", "e", "x", "i", "t">>, <<"/", "q", "u", "i", "t">>, <<"/", "h", "e", "l", "p">>, <<"/", "s", "e", "t", "t", "i", "n", "g", "s">>, <<"/", "m", "o", "d", "e", "l">>, <<"/", "t", "e", "m", "p">>,
     <<"/", "p", "e", "r", "s", "o", "n", "a">>, <<"/", "s", "e", "a", "r", "c", "h">>, <<"/", "h", "i", "s", "t", "o", "r", "y">>}

\* what every command that returns False leaves alone
Continue ==
    /\ pc' = "prompt"
    /\ UNCHANGED << disk, io, api_key, client, request, full_response >>

\* a variant of CmdExit that tests the command with startswith
CmdExitByPrefix(command) ==
    /\ startswith(command, <<"/", "e", "x", "i", "t">>) \/ startswith(command, <<"/", "q", "u", "i", "t">>)
    /\ console' = "Goodbye!"
    /\ pc' = "final_save"
    /\ UNCHANGED << disk, io, config, session, request, full_response >>

CmdExit(command) ==
    /\ command \in {<<"/", "e", "x", "i", "t">>, <<"/", "q", "u", "i", "t">>}
    /\ console' = "Goodbye!"
    /\ pc' = "final_save"
    /\ UNCHANGED << disk, io, config, session, request, full_response >>

CmdHelp(command) ==
    /\ command = <<"/", "h", "e", "l", "p">>
    /\ console' = "Help Menu"
    /\ Continue
    /\ UNCHANGED << config, model_name, temperature, system_instruction,
                    search_grounding, history, shared, chat_session >>

CmdSettings(command) ==
    /\ command = <<"/", "s", "e", "t", "t", "i", "n", "g", "s">>
    /\ console' = "Current Settings"
    /\ Continue
    /\ UNCHANGED << config, model_name, temperature, system_instruction,
                    search_grounding, history, shared, chat_session >>

CmdModel(command, arg) ==
    /\ command = <<"/", "m", "o", "d", "e", "l">>
    /\ Continue
    /\ UNCHANGED << temperature, system_instruction, search_grounding,
                    history, shared >>
    /\ IF arg = <<>>
         THEN /\ console' = "Error: Please specify a model name"
              /\ UNCHANGED << config, model_name, chat_session >>
       ELSE IF ~startswith(new_model(arg), GEMINI)
         THEN /\ console' = "Error: not a recognized model name"
              /\ UNCHANGED << config, model_name, chat_session >>
       ELSE /\ model_name' = new_model(arg)
            /\ config' = Put(config, "model", model_name')
            /\ Rebuild
            /\ console' = "Model changed"

CmdTemp(command, arg) ==
    /\ command = <<"/", "t", "e", "m", "p">>
    /\ Continue
    /\ UNCHANGED << model_name, system_instruction, search_grounding,
                    history, shared >>
    /\ LET temp == float(arg)
       IN  IF temp = ValueError
             THEN /\ console' = "Error: Invalid temperature value."
                  /\ UNCHANGED << config, temperature, chat_session >>
           ELSE IF InUnitRange(temp)
             THEN /\ temperature' = [m |-> temp.m, e |-> temp.e]
                  /\ config' = Put(config, "temperature", temperature')
                  /\ Rebuild
                  /\ console' = "Temperature set"
           ELSE /\ console' = "Error: Temperature must be between 0.0 and 1.0."
                /\ UNCHANGED << config, temperature, chat_session >>

\* a variant of CmdPersona that leaves self.config alone (line 201 dropped)
CmdPersonaSessionOnly(command, arg) ==
    /\ command = <<"/", "p", "e", "r", "s", "o", "n", "a">>
    /\ Continue
    /\ UNCHANGED << model_name, temperature, search_grounding, history,
                    shared, config >>
    /\ IF arg = <<>>
         THEN /\ console' = "Error: Please provide a persona prompt."
              /\ UNCHANGED << system_instruction, chat_session >>
         ELSE /\ system_instruction' = arg
              /\ Rebuild
              /\ console' = "Persona updated."

CmdPersona(command, arg) ==
    /\ command = <<"/", "p", "e", "r", "s", "o", "n", "a">>
    /\ Continue
    /\ UNCHANGED << model_name, temperature, search_grounding, history,
                    shared >>
    /\ IF arg = <<>>
         THEN /\ console' = "Error: Please provide a persona prompt."
              /\ UNCHANGED << config, system_instruction, chat_session >>
         ELSE /\ system_instruction' = arg
              /\ config' = Put(config, "system_instruction", system_instruction')
              /\ Rebuild
              /\ console' = "Persona updated."

CmdSearch(command, arg) ==
    /\ command = <<"/", "s", "e", "a", "r", "c", "h">>
    /\ Continue
    /\ UNCHANGED << model_name, temperature, system_instruction, history,
                    shared >>
    /\ IF lower(arg) \in {<<"o", "n">>, <<"t", "r", "u", "e">>}
         THEN search_grounding' = TRUE /\ console' = "Grounding ENABLED"
       ELSE IF lower(arg) \in {<<"o", "f", "f">>, <<"f", "a", "l", "s", "e">>}
         THEN search_grounding' = FALSE /\ console' = "Grounding DISABLED"
       ELSE UNCHANGED search_grounding /\ console' = "Error: Use /search on or off"
    /\ config' = Put(config, "search_grounding", search_grounding')
    /\ Rebuild

\* a variant of CmdHistory that clears self.history alone (line 221 dropped)
CmdHistorySessionOnly(command, arg) ==
    /\ command = <<"/", "h", "i", "s", "t", "o", "r", "y">>
    /\ Continue
    /\ UNCHANGED << model_name, temperature, system_instruction,
                    search_grounding >>
    /\ IF lower(arg) = <<"c", "l", "e", "a", "r">>
         THEN /\ history' = <<>>
              /\ shared' = FALSE
              /\ UNCHANGED config
              /\ Rebuild
              /\ console' = "Chat history cleared."
         ELSE /\ console' = "Error: Use /history clear"
              /\ UNCHANGED << config, history, shared, chat_session >>

\* self.history = [] and self.config["history"] = [] are two new lists
CmdHistory(command, arg) ==
    /\ command = <<"/", "h", "i", "s", "t", "o", "r", "y">>
    /\ Continue
    /\ UNCHANGED << model_name, temperature, system_instruction,
                    search_grounding >>
    /\ IF lower(arg) = <<"c", "l", "e", "a", "r">>
         THEN /\ history' = <<>>
              /\ config' = Put(config, "history", <<>>)
              /\ shared' = FALSE
              /\ Rebuild
              /\ console' = "Chat history cleared."
         ELSE /\ console' = "Error: Use /history clear"
              /\ UNCHANGED << config, history, shared, chat_session >>

CmdUnknown(command) ==
    /\ command \notin Handled
    /\ console' = "Unknown command"
    /\ Continue
    /\ UNCHANGED << config, model_name, temperature, system_instruction,
                    search_grounding, history, shared, chat_session >>

\* lines 136-138 split the line; the if-chain follows
process_command(user_input) ==
    LET parts   == split(user_input)
        command == lower(parts[1])
        arg     == IF Len(parts) > 1 THEN parts[2] ELSE <<>>
    IN  \/ CmdExit(command)
        \/ CmdHelp(command)
        \/ CmdSettings(command)
        \/ CmdModel(command, arg)
        \/ CmdTemp(command, arg)
        \/ CmdPersona(command, arg)
        \/ CmdSearch(command, arg)
        \/ CmdHistory(command, arg)
        \/ CmdUnknown(command)

\* ------------------------------------------------------ start_chat_loop
\* one line is read at the prompt and stripped (line 240)
Reads(line) ==
    /\ pc = "prompt"
    /\ prompts < MaxPrompts
    /\ line \in InputLines
    /\ prompts' = prompts + 1

\* lines 242-243
EmptyInput(line) ==
    /\ Reads(line)
    /\ strip(line) = <<>>
    /\ UNCHANGED << pc, disk, io, config, session, request, full_response,
                    console >>

\* lines 245-248
Command(line) ==
    /\ Reads(line)
    /\ startswith(strip(line), <<"/">>)
    /\ process_command(strip(line))

\* a variant of ChatTurn in which self.history is a copy of the list of
\* config["history"], so that the append of line 251 never reaches the
\* document
ChatTurnOnCopy(line) ==
    /\ Reads(line)
    /\ strip(line) # <<>>
    /\ ~startswith(strip(line), <<"/">>)
    /\ history' = Append(history, UserTurn(strip(line)))
    /\ config' = config
    /\ request' = generate_content_stream(strip(line))
    /\ full_response' = <<>>
    /\ console' = "Comp.lex: "
    /\ pc' = "stream"
    /\ UNCHANGED << disk, io, api_key, client, model_name, temperature,
                    system_instruction, search_grounding, shared,
                    chat_session >>

\* lines 250-274: the user turn is appended to self.history, which is the
\* list of config["history"] when the two are shared, and the request is
\* issued
ChatTurn(line) ==
    /\ Reads(line)
    /\ strip(line) # <<>>
    /\ ~startswith(strip(line), <<"/">>)
    /\ history' = Append(history, UserTurn(strip(line)))
    /\ config' = IF shared THEN Put(config, "history", history') ELSE config
    /\ request' = generate_content_stream(strip(line))
    /\ full_response' = <<>>
    /\ console' = "Comp.lex: "
    /\ pc' = "stream"
    /\ UNCHANGED << disk, io, api_key, client, model_name, temperature,
                    system_instruction, search_grounding, shared,
                    chat_session >>

\* a variant of StreamChunk that puts the chunk in front of the text
\* received so far, full_response = chunk.text + full_response
StreamChunkPrepends(text) ==
    /\ pc = "stream"
    /\ text \in Fragments
    /\ full_response \o text \in Prefixes(Responses)
    /\ full_response' = text \o full_response
    /\ console' = IF text # <<>> THEN "fragment" ELSE console
    /\ UNCHANGED << pc, disk, io, config, session, request, prompts >>

\* lines 276-280: one chunk of the stream
StreamChunk(text) ==
    /\ pc = "stream"
    /\ text \in Fragments
    /\ full_response \o text \in Prefixes(Responses)
    /\ full_response' = full_response \o text
    /\ console' = IF text # <<>> THEN "fragment" ELSE console
    /\ UNCHANGED << pc, disk, io, config, session, request, prompts >>

\* a variant of StreamEnd that saves without line 288,
\* self.config["history"] = self.history
StreamEndStaleDocument ==
    /\ pc = "stream"
    /\ IF full_response # <<>>
         THEN /\ history' = Append(history, ModelTurn(full_response))
              /\ config' = IF shared THEN Put(config, "history", history')
                            ELSE config
              /\ disk' \in save_config(config')
         ELSE UNCHANGED << history, config, disk >>
    /\ console' = IF full_response # <<>> /\ io # "ok"
                    THEN "Error: Could not save configuration" ELSE "newline"
    /\ request' = NoRequest
    /\ full_response' = <<>>
    /\ pc' = "prompt"
    /\ UNCHANGED << io, api_key, client, model_name, temperature,
                    system_instruction, search_grounding, chat_session,
                    shared, prompts >>

\* a variant of StreamEnd without the test of line 286, `if full_response:`:
\* the model entry is appended and the document saved after every stream
StreamEndAlwaysAppends ==
    /\ pc = "stream"
    /\ history' = Append(history, ModelTurn(full_response))
    /\ config' = Put(config, "history", history')
    /\ shared' = TRUE
    /\ disk' \in save_config(config')
    /\ console' = IF io # "ok" THEN "Error: Could not save configuration"
                  ELSE "newline"
    /\ request' = NoRequest
    /\ full_response' = <<>>
    /\ pc' = "prompt"
    /\ UNCHANGED << io, api_key, client, model_name, temperature,
                    system_instruction, search_grounding, chat_session,
                    prompts >>

\* lines 283-289: the stream ended
StreamEnd ==
    /\ pc = "stream"
    /\ IF full_response # <<>>
         THEN /\ history' = Append(history, ModelTurn(full_response))
              /\ config' = Put(config, "history", history')
              /\ shared' = TRUE
              /\ disk' \in save_config(config')
         ELSE UNCHANGED << history, config, shared, disk >>
    /\ console' = IF full_response # <<>> /\ io # "ok"
                    THEN "Error: Could not save configuration" ELSE "newline"
    /\ request' = NoRequest
    /\ full_response' = <<>>
    /\ pc' = "prompt"
    /\ UNCHANGED << io, api_key, client, model_name, temperature,
                    system_instruction, search_grounding, chat_session,
                    prompts >>

\* lines 291-296: APIError while the turn was under way
StreamAPIError ==
    /\ pc = "stream"
    /\ console' = "Gemini Error"
    /\ request' = NoRequest
    /\ full_response' = <<>>
    /\ pc' = "prompt"
    /\ UNCHANGED << disk, io, config, session, prompts >>

\* lines 297-299: KeyboardInterrupt at the prompt or while streaming.  The
\* loop is left, and the local full_response keeps the text received
\* before the interrupt.
Interrupt ==
    /\ pc \in {"prompt", "stream"}
    /\ console' = "Exiting Comp.lex."
    /\ request' = NoRequest
    /\ pc' = "final_save"
    /\ UNCHANGED << disk, io, config, session, full_response, prompts >>

\* lines 300-301: any other exception at the prompt or while streaming
Unexpected ==
    /\ pc \in {"prompt", "stream"}
    /\ console' = "An unexpected error occurred"
    /\ request' = NoRequest
    /\ full_response' = <<>>
    /\ pc' = "sleep"
    /\ UNCHANGED << disk, io, config, session, prompts >>

\* line 302: time.sleep(1) returns, or is interrupted inside the handler,
\* where no except clause of the loop applies
Sleep ==
    /\ pc = "sleep"
    /\ \/ pc' = "prompt" /\ console' = console
       \/ pc' = "killed" /\ console' = "Traceback"
    /\ UNCHANGED << disk, io, config, session, request, full_response,
                    prompts >>

\* ----------------------------------------------------------------- main
\* a variant of FinalSave in which main() returns without line 324
FinalSaveSkipped ==
    /\ pc = "final_save"
    /\ pc' = "done"
    /\ UNCHANGED << disk, io, config, session, request, full_response,
                    console, prompts >>

\* line 324
FinalSave ==
    /\ pc = "final_save"
    /\ disk' \in save_config(config)
    /\ console' = IF io = "ok" THEN console
                  ELSE "Error: Could not save configuration"
    /\ pc' = "done"
    /\ UNCHANGED << io, config, session, request, full_response, prompts >>

Next ==
    \/ LoadConfig
    \/ GetApiKey
    \/ \E entered \in KeyEntries : AskKey(entered)
    \/ AskKeyFails
    \/ Construct
    \/ \E line \in InputLines : EmptyInput(line)
    \/ \E line \in InputLines : Command(line)
    \/ \E line \in InputLines : ChatTurn(line)
    \/ \E text \in Fragments : StreamChunk(text)
    \/ StreamEnd
    \/ StreamAPIError
    \/ Interrupt
    \/ Unexpected
    \/ Sleep
    \/ FinalSave

Spec == Init /\ [][Next]_vars

\* the runs in which nothing but the remote API fails: every stream ends
\* with text or with an APIError, no prompt is interrupted, and the loop
\* ends by /exit or /quit
StreamEndWithText == full_response # <<>> /\ StreamEnd
NextRemoteFailure ==
    \/ LoadConfig
    \/ GetApiKey
    \/ \E entered \in KeyEntries : AskKey(entered)
    \/ Construct
    \/ \E line \in InputLines : EmptyInput(line)
    \/ \E line \in InputLines : Command(line)
    \/ \E line \in InputLines : ChatTurn(line)
    \/ \E text \in Fragments : StreamChunk(text)
    \/ StreamEndWithText
    \/ StreamAPIError
    \/ FinalSave
SpecRemoteFailure == Init /\ [][NextRemoteFailure]_vars

\* the same program on a disk whose writes may fail: writing the file
\* starts or stops raising IOError at any time
InitIO == Init
IOChange ==
    /\ io' = IF io = "ok" THEN "fail" ELSE "ok"
    /\ UNCHANGED << pc, disk, config, session, request, full_response,
                    console, prompts >>
NextIO == Next \/ IOChange
SpecIO == InitIO /\ [][NextIO]_vars

\* the same program when the write of the final save may fail: writing
\* the file starts to raise IOError once the loop has been left
FinalWriteFails ==
    /\ pc = "final_save"
    /\ io = "ok"
    /\ io' = "fail"
    /\ UNCHANGED << pc, disk, config, session, request, full_response,
                    console, prompts >>
NextFinalWrite == Next \/ FinalWriteFails
SpecFinalWrite == Init /\ [][NextFinalWrite]_vars

\* ======================================================================
\* Properties
\* ======================================================================
\* the history field of the file, empty when the file holds none
DiskHistory == Get(disk.doc, "history", <<>>)

\* the dict d holds value under key
Holds(d, key, value) == key \in DOMAIN d /\ d[key] = value

\* the messages that confirm a settings-changing command
Confirmations ==
    {"Model changed", "Temperature set", "Persona updated.",
     "Grounding ENABLED", "Grounding DISABLED", "Chat history cleared."}

\* the first word of a line, in lower case
Token(line) == lower(split(strip(line))[1])

\* the lines of the model that are commands, and those that are chat turns
CommandLines == {line \in InputLines : startswith(strip(line), <<"/">>)}
ChatLines == {line \in InputLines : strip(line) # <<>>} \ CommandLines

\* some command line was interpreted in this step
CommandStep == pc = "prompt" /\ \E line \in CommandLines : Command(line)

\* this step interpreted the command line `text`
Runs(text) == text \in InputLines /\ Command(text)

\* the stream of a turn ended normally with text received
ExchangeSucceeds == pc = "stream" /\ full_response # <<>> /\ StreamEnd

\* the document holds the setting the last confirmation was about
ConfirmedSettingInDocument ==
    /\ console = "Model changed" => Holds(config, "model", model_name)
    /\ console = "Temperature set" =>
         Holds(config, "temperature", temperature)
    /\ console = "Persona updated." =>
         Holds(config, "system_instruction", system_instruction)
    /\ console \in {"Grounding ENABLED", "Grounding DISABLED"} =>
         Holds(config, "search_grounding", search_grounding)
    /\ console = "Chat history cleared." => Holds(config, "history", <<>>)

C2_SuccessfulExchange ==
    [][ /\ \A line \in ChatLines : ChatTurn(line) =>
              /\ history' = Append(history, UserTurn(strip(line)))
              /\ request'.contents = << UserTurn(strip(line)) >>
        /\ (pc = "stream" /\ pc' = "stream") => history' = history
        /\ ExchangeSucceeds =>
              /\ history[Len(history)] = request.contents[1]
              /\ history' = Append(history, ModelTurn(full_response))
              /\ disk'.kind = "json"
              /\ Holds(disk'.doc, "history", history')
              /\ disk'.doc = config' ]_vars

\* an exchange has just succeeded from a document that held no history
C2_Witness ==
    /\ pc = "prompt"
    /\ console = "newline"
    /\ history = << UserTurn(<<"h", "i">>), ModelTurn(<<"o", "k">>) >>
    /\ DiskHistory = history

\* user turns of a history that no model turn answers
Unanswered(h) ==
    Cardinality({i \in 1..Len(h) :
        /\ h[i].role = "user"
        /\ (i = Len(h) \/ h[i + 1].role # "model")})

\* C3 as stated: the unanswered user turn of a failed exchange reaches the
\* history on disk only through the save of a later successful exchange,
\* and not through a command or the save at process exit.  Checked on the
\* runs of SpecRemoteFailure, where a turn is left unanswered only by an
\* APIError.
C3_FailedTurnNotPersisted ==
    [][ Unanswered(DiskHistory') > Unanswered(DiskHistory) =>
            ExchangeSucceeds ]_vars

\* this step interpreted /history clear
ClearLines ==
    {line \in CommandLines :
        /\ Token(line) = <<"/", "h", "i", "s", "t", "o", "r", "y">>
        /\ Len(split(strip(line))) = 2
        /\ lower(split(strip(line))[2]) = <<"c", "l", "e", "a", "r">>}
ClearStep == pc = "prompt" /\ \E line \in ClearLines : Command(line)

\* some step wrote the file while the loop or the final save ran
SaveStep == pc \in {"prompt", "stream", "final_save"} /\ disk' # disk

EffectiveModel == IF search_grounding THEN LITE_MODEL ELSE model_name

\* the lines of the model that are /search commands
SearchLines == {line \in CommandLines : Token(line) = <<"/", "s", "e", "a", "r", "c", "h">>}

\* C5: with grounding on, the remote context and every streaming request
\* use gemini-2.5-flash-lite whatever the configured model; with grounding
\* off both use the configured model; /search does not alter the
\* configured model.
C5_EffectiveModel ==
    [][ /\ chat_session'.id # 0 => chat_session'.model = EffectiveModel'
        /\ request'.sent => request'.model = EffectiveModel'
        /\ (pc = "prompt" /\ \E line \in SearchLines : Command(line)) =>
              /\ model_name' = model_name
              /\ Get(config', "model", <<>>) = Get(config, "model", <<>>) ]_vars

\* a request goes out with grounding on and another model configured
C5_Witness ==
    /\ request.sent
    /\ search_grounding
    /\ model_name = PRO_MODEL
    /\ request.model = LITE_MODEL
    /\ chat_session.model = LITE_MODEL

\* C6: /temp accepts exactly a number in [0.0, 1.0]: 0.0 and 1.0 are set,
\* and 1.1, -0.1, abc and a missing argument leave the temperature of the
\* session and of the document as they were.
C6_TempBounds ==
    [][ /\ Runs(<<"/", "t", "e", "m", "p", " ", "0", ".", "0">>) =>
              /\ temperature' = [m |-> 0, e |-> 0]
              /\ Holds(config', "temperature", temperature')
              /\ console' = "Temperature set"
        /\ Runs(<<"/", "t", "e", "m", "p", " ", "1", ".", "0">>) =>
              /\ temperature' = [m |-> 1, e |-> 0]
              /\ Holds(config', "temperature", temperature')
              /\ console' = "Temperature set"
        /\ \A text \in {<<"/", "t", "e", "m", "p", " ", "1", ".", "1">>, <<"/", "t", "e", "m", "p", " ", "-", "0", ".", "1">>, <<"/", "t", "e", "m", "p", " ", "a", "b", "c">>, <<"/", "t", "e", "m", "p">>,
                        <<"/", "t", "e", "m", "p", " ", "n", "a", "n">>} :
              Runs(text) =>
                /\ temperature' = temperature
                /\ config' = config
                /\ console' \notin Confirmations ]_vars

\* /temp 1.0 was accepted
C6_Witness ==
    /\ console = "Temperature set"
    /\ temperature = [m |-> 1, e |-> 0]
    /\ Holds(config, "temperature", [m |-> 1, e |-> 0])

\* what /model does with the shorthands and with banana
ModelShorthands ==
    /\ Runs(<<"/", "m", "o", "d", "e", "l", " ", "f", "l", "a", "s", "h">>) => model_name' = <<"g", "e", "m", "i", "n", "i", "-", "2", ".", "5", "-", "f", "l", "a", "s", "h">>
    /\ Runs(<<"/", "m", "o", "d", "e", "l", " ", "P", "R", "O">>) => model_name' = <<"g", "e", "m", "i", "n", "i", "-", "2", ".", "5", "-", "p", "r", "o">>
    /\ Runs(<<"/", "m", "o", "d", "e", "l", " ", "l", "i", "t", "e">>) => model_name' = <<"g", "e", "m", "i", "n", "i", "-", "2", ".", "5", "-", "f", "l", "a", "s", "h", "-", "l", "i", "t", "e">>
    /\ Runs(<<"/", "m", "o", "d", "e", "l", " ", "b", "a", "n", "a", "n", "a">>) =>
         (model_name' = model_name /\ config' = config)

\* C7 as stated: the shorthands resolve in any letter case,
\* /model custom-gemini-x sets the model to custom-gemini-x, and
\* /model banana is rejected.
C7_CustomGeminiAccepted ==
    [][ /\ ModelShorthands
        /\ Runs(<<"/", "m", "o", "d", "e", "l", " ", "c", "u", "s", "t", "o", "m", "-", "g", "e", "m", "i", "n", "i", "-", "x">>) =>
             model_name' = <<"c", "u", "s", "t", "o", "m", "-", "g", "e", "m", "i", "n", "i", "-", "x">> ]_vars

\* C7 amended: the shorthands resolve in any letter case; a name that
\* starts with gemini, such as gemini-x, is set verbatim; banana and
\* custom-gemini-x, which do not start with gemini, are rejected and
\* leave the model unchanged.
C7_ModelResolution ==
    [][ /\ ModelShorthands
        /\ Runs(<<"/", "m", "o", "d", "e", "l", " ", "g", "e", "m", "i", "n", "i", "-", "x">>) =>
             (model_name' = <<"g", "e", "m", "i", "n", "i", "-", "x">> /\ Holds(config', "model", <<"g", "e", "m", "i", "n", "i", "-", "x">>))
        /\ Runs(<<"/", "m", "o", "d", "e", "l", " ", "c", "u", "s", "t", "o", "m", "-", "g", "e", "m", "i", "n", "i", "-", "x">>) =>
             (model_name' = model_name /\ config' = config) ]_vars

\* a shorthand typed in capitals was resolved
C7_Witness ==
    /\ console = "Model changed"
    /\ model_name = PRO_MODEL
    /\ Get(config, "model", <<>>) = PRO_MODEL
    /\ disk.doc # DocFull

\* C8 as stated: onboarding rejects every entry that does not start with
\* AIza, changing and saving nothing, and accepts every entry that starts
\* with AIza, storing it verbatim and saving at once.
C8_EntryCheckedAsTyped ==
    [][ \A entered \in KeyEntries : AskKey(entered) =>
          IF startswith(entered, AIza)
            THEN /\ Holds(config', "api_key", Str(entered))
                 /\ disk' = JsonFile(config')
                 /\ pc' = "construct"
            ELSE /\ config' = config
                 /\ disk' = disk
                 /\ pc' = "ask_key" ]_vars

\* the entry with the whitespace around it removed
Trimmed(entered) ==
    IF entered = <<" ", "A", "I", "z", "a", "T", "E", "S", "T", "K", "E", "Y">> \/ entered = <<"A", "I", "z", "a", "T", "E", "S", "T", "K", "E", "Y", " ">>
      THEN <<"A", "I", "z", "a", "T", "E", "S", "T", "K", "E", "Y">> ELSE entered

\* C8 amended: the entry is judged after its surrounding whitespace is
\* removed: if what remains does not start with AIza it is rejected,
\* nothing is changed or saved and the prompt repeats; if it starts with
\* AIza it is stored, without the surrounding whitespace, and the document
\* is saved before onboarding returns.
C8_EntryCheckedTrimmed ==
    [][ \A entered \in KeyEntries : AskKey(entered) =>
          IF startswith(Trimmed(entered), AIza)
            THEN /\ Holds(config', "api_key", Str(Trimmed(entered)))
                 /\ disk' = JsonFile(config')
                 /\ pc' = "construct"
            ELSE /\ config' = config
                 /\ disk' = disk
                 /\ pc' = "ask_key" ]_vars

\* a key was accepted and saved over a file that could not be parsed
C8_Witness ==
    /\ pc = "construct"
    /\ console = "API Key accepted and saved."
    /\ config = [api_key |-> Str(<<"A", "I", "z", "a", "T", "E", "S", "T", "K", "E", "Y">>)]
    /\ disk = JsonFile(config)

\* the document holds a credential that starts with AIza
CredentialValid ==
    /\ "api_key" \in DOMAIN config
    /\ config.api_key.t = "str"
    /\ startswith(config.api_key.s, AIza)

\* a client is open, a remote context exists or a request is in flight
RemoteCallMade == client.open \/ chat_session.id # 0 \/ request.sent

\* C9: whatever document was loaded, a remote call is made only while the
\* document's credential starts with AIza, with that credential, and the
\* credential does not change once the controller is constructed.
C9_CredentialBeforeRemote ==
    [][ /\ RemoteCallMade' =>
              (CredentialValid' /\ Holds(config', "api_key", client'.api_key))
        /\ pc \notin {"load", "get_api_key", "ask_key"} =>
              Get(config', "api_key", None) = Get(config, "api_key", None)
      ]_vars

\* a request is in flight with a key that onboarding collected
C9_Witness ==
    /\ request.sent
    /\ client.api_key = Str(<<"A", "I", "z", "a", "T", "E", "S", "T", "K", "E", "Y">>)
    /\ Get(disk.doc, "api_key", None) = Str(<<"A", "I", "z", "a", "T", "E", "S", "T", "K", "E", "Y">>)

\* the command tokens the interpreter recognizes
Recognized ==
    {<<"/", "e", "x", "i", "t">>, <<"/", "q", "u", "i", "t">>, <<"/", "h", "e", "l", "p">>, <<"/", "s", "e", "t", "t", "i", "n", "g", "s">>, <<"/", "m", "o", "d", "e", "l">>, <<"/", "t", "e", "m", "p">>,
     <<"/", "p", "e", "r", "s", "o", "n", "a">>, <<"/", "s", "e", "a", "r", "c", "h">>, <<"/", "h", "i", "s", "t", "o", "r", "y">>}

\* the lines of the model that begin with / and whose token is not recognized
UnknownLines == {line \in CommandLines : Token(line) \notin Recognized}

\* C10: a line that begins with / and whose command token, compared
\* without regard to case, is not recognized changes neither the session,
\* nor the document, nor the remote context, nor the file, and does not
\* end the loop.
C10_UnknownCommand ==
    [][ \A line \in UnknownLines :
          (pc = "prompt" /\ Command(line)) =>
          /\ UNCHANGED << disk, config, session, request >>
          /\ pc' = "prompt"
          /\ console' = "Unknown command" ]_vars

\* an unknown command was reported and the loop goes on
C10_Witness ==
    /\ pc = "prompt"
    /\ console = "Unknown command"
    /\ prompts > 0

\* the grounding tool a context or a request carries under the settings
GroundingTool == IF search_grounding THEN {"google_search"} ELSE {}

\* C11: right after /model, /temp, /persona, /search on|off or
\* /history clear succeeds, the remote context is another object than the
\* one before, its model is the effective model, its system instruction,
\* temperature and grounding tool are the current settings, and its turn
\* history is the in-memory history, in the same order.
C11_RebuiltAfterCommand ==
    [][ (CommandStep /\ console' \in Confirmations) =>
          /\ chat_session'.id \notin {0, chat_session.id}
          /\ chat_session'.model = EffectiveModel'
          /\ chat_session'.system_instruction = system_instruction'
          /\ chat_session'.temperature = temperature'
          /\ chat_session'.tools = GroundingTool'
          /\ chat_session'.history = history' ]_vars

\* /temp 1.0 replaced the context built at construction from a document
\* that held two turns
C11_Witness ==
    /\ pc = "prompt"
    /\ console = "Temperature set"
    /\ chat_session.id = 2
    /\ chat_session.temperature = [m |-> 1, e |-> 0]
    /\ chat_session.history = << UserTurn(<<"h", "i">>), ModelTurn(<<"o", "k">>) >>
    /\ history = chat_session.history

\* the lines of the model that use a recognized command invalidly
InvalidUses ==
    {<<"/", "m", "o", "d", "e", "l">>, <<"/", "m", "o", "d", "e", "l", " ", "b", "a", "n", "a", "n", "a">>, <<"/", "m", "o", "d", "e", "l", " ", "c", "u", "s", "t", "o", "m", "-", "g", "e", "m", "i", "n", "i", "-", "x">>,
     <<"/", "t", "e", "m", "p">>, <<"/", "t", "e", "m", "p", " ", "1", ".", "1">>, <<"/", "t", "e", "m", "p", " ", "-", "0", ".", "1">>, <<"/", "t", "e", "m", "p", " ", "a", "b", "c">>, <<"/", "t", "e", "m", "p", " ", "n", "a", "n">>,
     <<"/", "p", "e", "r", "s", "o", "n", "a">>, <<"/", "s", "e", "a", "r", "c", "h", " ", "m", "a", "y", "b", "e">>, <<"/", "h", "i", "s", "t", "o", "r", "y">>}

\* C12: a recognized command used invalidly leaves the settings, the
\* history, the configuration document and the remote context handle as
\* they were before the command.
C12_InvalidUseChangesNothing ==
    [][ \A line \in InvalidUses :
          (pc = "prompt" /\ Runs(line)) =>
          /\ UNCHANGED << model_name, temperature, system_instruction,
                          search_grounding, history >>
          /\ config' = config
          /\ chat_session' = chat_session ]_vars

\* the decimal t lies in the inclusive range [0.0, 1.0]
WithinUnit(t) == 0 <= t.m /\ t.m <= Pow10(t.e)

\* the controller has been constructed
Constructed == pc \in {"prompt", "stream", "sleep", "final_save", "done"}

\* C13: from the construction of the controller on, whatever document was
\* loaded and whatever commands and exchanges followed, the temperature of
\* the session and the temperature of the document lie in [0.0, 1.0].
C13_TemperatureInRange ==
    Constructed =>
      /\ WithinUnit(temperature)
      /\ "temperature" \in DOMAIN config => WithinUnit(config.temperature)

\* C14: Load never raises: whatever the file is (absent, a well-formed
\* document, malformed content) it returns a document, the parsed one for
\* a well-formed file and the empty one otherwise; for malformed content a
\* warning is emitted; and loading leaves the file as it is.
C14_LoadNeverRaises ==
    [][ pc = "load" =>
          /\ pc' = "get_api_key"
          /\ config' = IF disk.kind = "json" THEN disk.doc ELSE EmptyDict
          /\ disk.kind \notin {"absent", "json"} =>
                console' = "Warning: corrupted"
          /\ disk' = disk ]_vars

\* C15: a completed exchange extends the remote context, without
\* rebuilding it, by the user turn and the model turn of the exchange, so
\* that at the prompt that follows the context's turn history equals the
\* in-memory history.
C15_ContextExtendedByExchange ==
    [][ ExchangeSucceeds =>
          /\ chat_session'.id = chat_session.id
          /\ chat_session'.history =
                chat_session.history \o
                   << request.contents[1], ModelTurn(full_response) >>
          /\ chat_session'.history = history' ]_vars

\* the stream of a turn ended normally and no text was received
EmptyStreamEnds == pc = "stream" /\ full_response = <<>> /\ StreamEnd

\* while a turn is under way, the history as it was before the input of
\* the turn was read: reading the input appended one entry, and no step of
\* the stream changes the history
HistoryBeforeTurn == SubSeq(history, 1, Len(history) - 1)

ModelTurns(h) == Cardinality({i \in 1..Len(h) : h[i].role = "model"})

\* the loop of start_chat_loop is running
InLoop == pc \in {"prompt", "stream", "sleep"}

\* the history d is the beginning of the history h
Within(d, h) == Len(d) <= Len(h) /\ \A i \in 1..Len(d) : d[i] = h[i]

\* the turn under way is cut short by a remote failure, a manual interrupt
\* or another failure
TurnCutShort ==
    pc = "stream" /\ (StreamAPIError \/ Interrupt \/ Unexpected)

\* C17: the text of a turn starts empty and grows by each fragment in
\* arrival order, empty fragments adding nothing; a model entry enters the
\* history only when the stream has ended with text received, and carries
\* that text; a turn cut short by a remote failure or an interrupt changes
\* neither the history nor the document nor the file; and the file is only
\* ever written from the document, whose history is the beginning of the
\* in-memory history, so the text of a turn cut short reaches neither.
C17_ModelEntryAfterFullStream ==
    [][ /\ \A line \in ChatLines : ChatTurn(line) => full_response' = <<>>
        /\ \A text \in Fragments : StreamChunk(text) =>
              /\ full_response' = full_response \o text
              /\ UNCHANGED << history, config, disk >>
        /\ (InLoop /\ ModelTurns(history') > ModelTurns(history)) =>
              /\ ExchangeSucceeds
              /\ history' = Append(history, ModelTurn(full_response))
        /\ TurnCutShort => UNCHANGED << history, config, disk >>
        /\ (InLoop \/ pc = "final_save") =>
              /\ Within(Get(config', "history", <<>>), history')
              /\ disk' # disk => disk' = JsonFile(config') ]_vars

\* a turn was interrupted after the fragment o had arrived: the run ended
\* with the user entry alone in memory and no history in the file
C17_Witness ==
    /\ pc = "done"
    /\ console = "Exiting Comp.lex."
    /\ full_response = <<"o">>
    /\ history = << UserTurn(<<"h", "i">>) >>
    /\ DiskHistory = <<>>

\* the lines of the model whose command token is /exit or /quit in any
\* letter case
ExitLines == {line \in CommandLines : Token(line) \in {<<"/", "e", "x", "i", "t">>, <<"/", "q", "u", "i", "t">>}}

\* this step interpreted /exit or /quit
ExitStep == pc = "prompt" /\ \E line \in ExitLines : Command(line)

\* C18: the loop ends only by /exit or /quit, in any letter case, or by a
\* manual interrupt, and it ends by returning to main(); after empty
\* input, any other command and a remote API failure the loop is at the
\* next prompt; and after any other failure in the loop body nothing
\* leaves the iteration: the failure is reported and the loop goes on to
\* the next prompt.
C18_LoopEndsByExitOrInterrupt ==
    [][ /\ (InLoop /\ ~InLoop') =>
              (pc' = "final_save" /\ (ExitStep \/ Interrupt))
        /\ ExitStep => pc' = "final_save"
        /\ \A line \in InputLines \ ExitLines :
              (EmptyInput(line) \/ Command(line)) => pc' = "prompt"
        /\ (pc = "stream" /\ StreamAPIError) => pc' = "prompt"
        /\ Unexpected => pc' = "sleep"
        /\ pc = "sleep" => pc' = "prompt" ]_vars

\* every setting the document holds is the setting of the session
SettingsInDocument ==
    /\ "model" \in DOMAIN config => config.model = model_name
    /\ "temperature" \in DOMAIN config => config.temperature = temperature
    /\ "system_instruction" \in DOMAIN config =>
          config.system_instruction = system_instruction
    /\ "search_grounding" \in DOMAIN config =>
          config.search_grounding = search_grounding

\* C19: when the loop is left by /exit, /quit or a caught interrupt, or is
\* not run, main() goes on to the final save; the process ends normally
\* only through that save; the save leaves the controller's document as it
\* is and, if the write succeeds, the file then equals that document,
\* which holds every setting that commands changed during the run.
C19_FinalSaveBeforeEnd ==
    [][ /\ (ExitStep \/ Interrupt) => pc' = "final_save"
        /\ (pc = "construct" /\ ~client'.open) => pc' = "final_save"
        /\ (pc # "done" /\ pc' = "done") => pc = "final_save"
        /\ (pc = "final_save" /\ pc' = "done") =>
              /\ config' = config
              /\ SettingsInDocument
              /\ io = "ok" => disk' = JsonFile(config)
              /\ io # "ok" => disk' \in {disk, Malformed} ]_vars

\* the run ended by /exit after /model lite: the file written by the
\* final save holds the new model
C19_Witness ==
    /\ pc = "done"
    /\ console = "Goodbye!"
    /\ prompts = 2
    /\ model_name = LITE_MODEL
    /\ disk = JsonFile(config)
    /\ Holds(disk.doc, "model", LITE_MODEL)
    /\ Get(disk.doc, "api_key", None) = Str(<<"A", "I", "z", "a", "T", "E", "S", "T", "K", "E", "Y">>)

\* the history the next save writes: the history field of the
\* controller's document, empty when the document has none
DocumentHistory == Get(config, "history", <<>>)

\* C20 as stated: at every prompt the history of the controller's
\* document equals the in-memory history, and the model, temperature,
\* persona and grounding fields of the document, when present, equal the
\* fields of the session.
C20_DocumentMirrorsSession ==
    pc = "prompt" => (DocumentHistory = history /\ SettingsInDocument)

\* C20 amended: at every prompt the settings fields of the document, when
\* present, equal the fields of the session, and the history of the
\* document is the beginning of the in-memory history: the two are equal
\* while the document's history is the list the controller appends to
\* (the loaded document held a history field, or an exchange has succeeded
\* since the last /history clear); otherwise the document's history is
\* empty and the in-memory history holds only the user entries of turns
\* that did not complete.
C20_DocumentHistoryBehindSession ==
    pc = "prompt" =>
      /\ SettingsInDocument
      /\ Within(DocumentHistory, history)
      /\ shared => DocumentHistory = history
      /\ ~shared =>
            /\ DocumentHistory = <<>>
            /\ \A i \in 1..Len(history) : history[i].role = "user"

\* after a failed turn the user entry is in memory and not in the document
\* that was loaded without a history field
C20_Witness ==
    /\ pc = "prompt"
    /\ console = "Gemini Error"
    /\ history = << UserTurn(<<"h", "i">>) >>
    /\ "history" \notin DOMAIN config

=============================================================================
